---- MODULE Spec2Model ----
(***************************************************************************)
(* Model of the opentelemetry handler of caddy                             *)
(* (modules/caddyhttp/opentelemetry): the process-wide tracerProviderCache *)
(* with its mutex, and the OpenTelemetry module instances that acquire a   *)
(* TracerProvider in Provision and release it in Cleanup.                  *)
(*                                                                         *)
(* Every statement of getTracerProvider and cleanupTracerProvider that     *)
(* touches shared state is one step of the calling instance, so that       *)
(* concurrent calls interleave exactly where the Go scheduler lets them.   *)
(***************************************************************************)
EXTENDS Integers, Sequences, FiniteSets, TLC

\* ------------------------------------------------------------------ bounds
NumInstances == 2      \* OpenTelemetry module instances running concurrently
MaxCalls == 4          \* Provision/Cleanup calls issued over a behaviour
MaxTokens == 3         \* comma-separated pieces of a propagators value
MaxID == 3             \* trace and span IDs other than the all-zero one

Instances == 1..NumInstances
NoInstance == 0
NoProvider == 0        \* nil *sdktrace.TracerProvider
Providers == 1..MaxCalls

\* ------------------------------------------------------------------ errors
\* A Go error is the chain of messages added by fmt.Errorf("...: %w", err),
\* outermost first; nil is the empty chain.
Nil == <<>>
Wrap(msg, err) == <<msg>> \o err
ErrorsIs(err, target) ==
    \E i \in 1..Len(err) : SubSeq(err, i, Len(err)) = target

ErrUnspecifiedTracesProtocol == <<"unspecified opentelemetry traces protocol">>
ErrNonSupportedTracesProtocol == <<"non supported opentelemetry traces protocol">>
ErrUnspecifiedPropagators == <<"unspecified opentelemtry propagators">>
ErrResource == <<"resource error">>
ErrExporter == <<"exporter error">>
ErrForceFlush == <<"force flush error">>
ErrShutdown == <<"shutdown error">>

\* ------------------------------------------------------------ propagators
\* The propagators value is taken apart character by character, so it is a
\* sequence of characters; the other configuration values are only compared
\* and concatenated and stay strings.
EmptyString == <<>>
Str_tracecontext == <<"t", "r", "a", "c", "e", "c", "o", "n", "t", "e", "x", "t">>
Str_baggage == <<"b", "a", "g", "g", "a", "g", "e">>
Str_foo == <<"f", "o", "o">>
WhiteSpace == {" ", "\t", "\n", "\r"}

\* strings.Split(s, ","): the pieces between the commas, "" giving one empty piece
RECURSIVE SplitFrom(_, _, _)
SplitFrom(s, piece, pieces) ==
    IF s = <<>> THEN Append(pieces, piece)
    ELSE IF Head(s) = "," THEN SplitFrom(Tail(s), <<>>, Append(pieces, piece))
    ELSE SplitFrom(Tail(s), Append(piece, Head(s)), pieces)
Split(s) == SplitFrom(s, <<>>, <<>>)

\* strings.TrimSpace
RECURSIVE TrimLeft(_)
TrimLeft(s) ==
    IF s # <<>> /\ Head(s) \in WhiteSpace THEN TrimLeft(Tail(s)) ELSE s
RECURSIVE TrimRight(_)
TrimRight(s) ==
    IF s # <<>> /\ s[Len(s)] \in WhiteSpace
    THEN TrimRight(SubSeq(s, 1, Len(s) - 1)) ELSE s
TrimSpace(s) == TrimRight(TrimLeft(s))

\* getPropagators: the loop of lines 231-242 from piece i on, with the
\* deduplicationMap and the propagatorsList built so far.  A codec is named
\* "baggage" (propagation.Baggage{}) or "tracecontext"
\* (propagation.TraceContext{}); the composite is the list in order.
RECURSIVE PropagatorsFrom(_, _, _, _)
PropagatorsFrom(pieces, i, deduplicationMap, propagatorsList) ==
    IF i > Len(pieces) THEN propagatorsList
    ELSE LET propagatorName == TrimSpace(pieces[i]) IN
         IF propagatorName \in deduplicationMap
         THEN PropagatorsFrom(pieces, i + 1, deduplicationMap, propagatorsList)
         ELSE PropagatorsFrom(pieces, i + 1, deduplicationMap \cup {propagatorName},
                  IF propagatorName = Str_baggage
                  THEN Append(propagatorsList, "baggage")
                  ELSE IF propagatorName = Str_tracecontext
                  THEN Append(propagatorsList, "tracecontext")
                  ELSE propagatorsList)

\* Variant of getPropagators without the deduplicationMap: every recognised
\* piece adds a codec.
getPropagators_NoDeduplication(propagators) ==
    LET pieces == Split(propagators)
        names == [i \in 1..Len(pieces) |-> TrimSpace(pieces[i])]
        known == SelectSeq(names, LAMBDA n : n \in {Str_baggage, Str_tracecontext})
    IN  [i \in 1..Len(known) |->
            IF known[i] = Str_baggage THEN "baggage" ELSE "tracecontext"]

getPropagators(propagators) == PropagatorsFrom(Split(propagators), 1, {}, <<>>)

\* ------------------------------------------------------- configuration
defaultServiceName == "caddyService"

ServiceNames == {"", "svc"}
TracerNames == {"my-tracer"}
ConfigProtocols == {"", "grpc", "http/1.1"}
EnvProtocols == {"", "grpc"}
ConfigPropagators == {EmptyString, Str_tracecontext}
EnvPropagators == {EmptyString, Str_tracecontext}
InsecureValues == {"true"}
Certificates == {""}
Endpoints == {""}

\* The fields of the OpenTelemetry module that Provision passes on.
ModuleConfigs ==
    [ServiceName : ServiceNames, TracerName : TracerNames,
     Propagators : ConfigPropagators,
     ExporterTracesProtocol : ConfigProtocols,
     ExporterInsecure : InsecureValues,
     ExporterCertificate : Certificates,
     ExporterTracesEndpoint : Endpoints]

\* The environment variables newOpenTelemetryWrapper reads.
Environments ==
    [OTEL_EXPORTER_OTLP_TRACES_PROTOCOL : EnvProtocols,
     OTEL_EXPORTER_OTLP_PROTOCOL : EnvProtocols,
     OTEL_PROPAGATORS : EnvPropagators]

\* Variant of getTracesProtocolFromEnv that looks at OTEL_EXPORTER_OTLP_PROTOCOL
\* first.
getTracesProtocolFromEnv_GeneralFirst(env) ==
    IF env.OTEL_EXPORTER_OTLP_PROTOCOL # ""
    THEN env.OTEL_EXPORTER_OTLP_PROTOCOL
    ELSE env.OTEL_EXPORTER_OTLP_TRACES_PROTOCOL

getTracesProtocolFromEnv(env) ==
    IF env.OTEL_EXPORTER_OTLP_TRACES_PROTOCOL # ""
    THEN env.OTEL_EXPORTER_OTLP_TRACES_PROTOCOL
    ELSE env.OTEL_EXPORTER_OTLP_PROTOCOL

\* getTracerExporter: only "grpc" builds an exporter; building it may fail.
getTracerExporter(protocol, exporterFails) ==
    IF protocol = "grpc"
    THEN IF exporterFails THEN Wrap("credentials creation error", ErrExporter) ELSE Nil
    ELSE Wrap("tracesProtocol " \o protocol, ErrNonSupportedTracesProtocol)

BoolString(b) == IF b THEN "true" ELSE "false"

\* fmt.Sprintf("%s-%s-%s-%v-%s-%s", ...)
tracerProviderKey(serviceName, tracerName, protocol, insecure, certificate, endpoint) ==
    serviceName \o "-" \o tracerName \o "-" \o protocol \o "-"
        \o BoolString(insecure) \o "-" \o certificate \o "-" \o endpoint

\* Variant of propagatorsOrEnv without the fallback of lines 102-104.
propagatorsOrEnv_NoFallback(propagators, env) == propagators

\* lines 102-104: if propagators == "" { propagators = os.Getenv(envOtelPropagators) }
propagatorsOrEnv(propagators, env) ==
    IF propagators = EmptyString THEN env.OTEL_PROPAGATORS ELSE propagators

\* What newOpenTelemetryWrapper returns with an error: the wrapper has neither
\* propagators nor key.  exporter tells whether getTracerExporter had built an
\* exporter by then.
SetupError(e, exporterBuilt) ==
    [err |-> e, key |-> "", propagators |-> <<>>, exporter |-> exporterBuilt]

\* newOpenTelemetryWrapper up to the call of getTracerProvider: the error it
\* returns (Nil when it goes on to the cache), the key it computes, the
\* propagators it composes and whether it has built an exporter.
newOpenTelemetryWrapper(cfg, env, resourceFails, exporterFails) ==
    LET serviceName == IF cfg.ServiceName = "" THEN defaultServiceName ELSE cfg.ServiceName
        insecure == cfg.ExporterInsecure = "true"
        protocol == IF cfg.ExporterTracesProtocol = ""
                    THEN getTracesProtocolFromEnv(env)
                    ELSE cfg.ExporterTracesProtocol
        exporterErr == getTracerExporter(protocol, exporterFails)
        propagators == propagatorsOrEnv(cfg.Propagators, env)
        key == tracerProviderKey(serviceName, cfg.TracerName, protocol, insecure,
                                 cfg.ExporterCertificate, cfg.ExporterTracesEndpoint)
    IN  IF resourceFails
        THEN SetupError(Wrap("creating resource error", ErrResource), FALSE)
        ELSE IF protocol = ""
        THEN SetupError(ErrUnspecifiedTracesProtocol, FALSE)
        ELSE IF exporterErr # Nil
        THEN SetupError(Wrap("creating trace exporter error", exporterErr), FALSE)
        ELSE IF propagators = EmptyString
        THEN SetupError(ErrUnspecifiedPropagators, TRUE)
        ELSE [err |-> Nil, key |-> key, propagators |-> getPropagators(propagators),
              exporter |-> TRUE]

\* What newOpenTelemetryWrapper can come to before the cache call, over every
\* module configuration, environment and outcome of building the resource and
\* the exporter.
SetupOutcomes ==
    {newOpenTelemetryWrapper(cfg, env, resourceFails, exporterFails) :
        cfg \in ModuleConfigs, env \in Environments,
        resourceFails \in BOOLEAN, exporterFails \in BOOLEAN}

\* --------------------------------------------------------------- Go maps
MapGet(m, k, zero) == IF k \in DOMAIN m THEN m[k] ELSE zero
MapPut(m, k, v) == [x \in DOMAIN m \cup {k} |-> IF x = k THEN v ELSE m[x]]
MapDelete(m, k) == [x \in DOMAIN m \ {k} |-> m[x]]
EmptyMap == [x \in {} |-> 0]

\* ------------------------------------------------------------------ state
VARIABLES
    mu,                      \* tracerProviderCache.mu: the instance holding it, or NoInstance
    tracerProviders,         \* tracerProviderCache.tracerProviders: key -> provider
    tracerProvidersCounter,  \* tracerProviderCache.tracerProvidersCounter: key -> int
    numCreated,              \* providers built so far by sdktrace.NewTracerProvider
    flushCalls,              \* per provider: ForceFlush invocations
    shutdownCalls,           \* per provider: Shutdown invocations
    logged,                  \* logger.Error calls made by cleanupTracerProvider
    pc,                      \* per instance: the statement it executes next
    key,                     \* per instance: the key argument of the cache call in flight
    tp,                      \* per instance: the local val / tracerProvider
    err,                     \* per instance: the error cleanupTracerProvider returns
    ot,                      \* per instance: the wrapper newOpenTelemetryWrapper is
                             \* building (its propagators)
    otel,                    \* per instance: ot.otel (tracerProviderKey, tracer's provider,
                             \* propagators)
    result,                  \* per instance: what its last Provision / Cleanup returned
                             \* (Nil while a call is in flight)
    calls,                   \* Provision/Cleanup calls issued so far
    hist,                    \* history: bookkeeping the properties are stated over
    fn                       \* the function under study and its inputs and results, in
                             \* the specifications of single functions (NoFn otherwise)

cacheVars == <<mu, tracerProviders, tracerProvidersCounter>>
providerVars == <<numCreated, flushCalls, shutdownCalls, logged>>
callVars == <<pc, key, tp, err, ot>>
moduleVars == <<otel, result, calls>>
lifecycleVars == <<cacheVars, providerVars, callVars, moduleVars, hist>>
vars == <<lifecycleVars, fn>>

CounterOf(k) == MapGet(tracerProvidersCounter, k, 0)

EmptyWrapper == [tracerProviderKey |-> "", tracer |-> NoProvider, propagators |-> <<>>]
NoFn == [name |-> "none"]

\* History of the cache call an instance has in flight.
\*   op       "get" or "cleanup"
\*   absent   the key was in neither map when the call took the lock
\*   hitZero  the call decremented the key's counter from 1 to 0
\*   atZero   the counter was 0 at the test of line 50
\*   cached   a provider was cached for the key at the test of line 51
\*   events   ForceFlush / Shutdown / delete performed by the call, in order,
\*            each with its outcome and the provider it was applied to
\*   exporter the setup making the call has built a trace exporter (line 96)
\*   reused   the call found a provider cached for the key at line 30
NoCall == [op |-> "none", absent |-> FALSE, hitZero |-> FALSE, atZero |-> FALSE,
           cached |-> FALSE, events |-> <<>>, exporter |-> FALSE, reused |-> FALSE]

\* The other history fields:
\*   acquires, releases   per key: getTracerProvider / cleanupTracerProvider
\*                        calls that have returned
\*   owes                 per instance: the provider its setup acquired and it
\*                        has not called Cleanup for (NoProvider: none)
\*   held                 per provider: instances that acquired it and have
\*                        not called Cleanup since
\*   builtFor             per provider: the key it was built for
\*   together             per provider: two instances have held it at once
\*   disciplined          no Cleanup was called by an instance that owed nothing
\*   releasedAtZero       some cleanupTracerProvider found its key's counter at 0
Unstarted ==
    /\ mu = NoInstance
    /\ tracerProviders = EmptyMap
    /\ tracerProvidersCounter = EmptyMap
    /\ numCreated = 0
    /\ flushCalls = [x \in Providers |-> 0]
    /\ shutdownCalls = [x \in Providers |-> 0]
    /\ logged = 0
    /\ pc = [p \in Instances |-> "idle"]
    /\ key = [p \in Instances |-> ""]
    /\ tp = [p \in Instances |-> NoProvider]
    /\ err = [p \in Instances |-> Nil]
    /\ ot = [p \in Instances |-> EmptyWrapper]
    /\ otel = [p \in Instances |-> EmptyWrapper]
    /\ result = [p \in Instances |-> Nil]
    /\ calls = 0
    /\ hist = [call |-> [p \in Instances |-> NoCall],
               acquires |-> EmptyMap,
               releases |-> EmptyMap,
               owes |-> [p \in Instances |-> NoProvider],
               held |-> [x \in Providers |-> 0],
               builtFor |-> [x \in Providers |-> ""],
               together |-> [x \in Providers |-> FALSE],
               disciplined |-> TRUE,
               releasedAtZero |-> FALSE]

Init ==
    /\ Unstarted
    /\ fn = NoFn

\* --------------------------------------------------- OpenTelemetry module
\* Variant of Provision that assigns ot.otel only when the setup succeeded: a
\* failed setup leaves the wrapper of the setup before it.
Provision_KeepWrapperOnError(p) ==
    /\ pc[p] = "idle"
    /\ calls < MaxCalls
    /\ calls' = calls + 1
    /\ \E r \in SetupOutcomes :
              IF r.err # Nil
              THEN /\ result' = [result EXCEPT ![p] = r.err]
                   /\ hist' = [hist EXCEPT !.call[p] = NoCall, !.owes[p] = NoProvider]
                   /\ UNCHANGED <<callVars, otel>>
              ELSE /\ pc' = [pc EXCEPT ![p] = "get_lock"]
                   /\ key' = [key EXCEPT ![p] = r.key]
                   /\ tp' = [tp EXCEPT ![p] = NoProvider]
                   /\ err' = [err EXCEPT ![p] = Nil]
                   /\ ot' = [ot EXCEPT ![p] = [EmptyWrapper EXCEPT
                                                  !.propagators = r.propagators,
                                                  !.tracerProviderKey = r.key]]
                   /\ hist' = [hist EXCEPT !.call[p] = [NoCall EXCEPT !.op = "get",
                                                                      !.exporter = r.exporter],
                                           !.owes[p] = NoProvider]
                   /\ result' = [result EXCEPT ![p] = Nil]
                   /\ UNCHANGED otel
    /\ UNCHANGED <<cacheVars, providerVars>>
    /\ UNCHANGED fn

\* Variant of Provision that counts the acquisition before the setup has
\* validated its configuration: a failing setup leaves a counter behind.
Provision_AcquireBeforeValidate(p) ==
    /\ pc[p] = "idle"
    /\ calls < MaxCalls
    /\ calls' = calls + 1
    /\ \E r \in SetupOutcomes :
              IF r.err # Nil
              THEN /\ otel' = [otel EXCEPT ![p] = EmptyWrapper]
                   /\ result' = [result EXCEPT ![p] = r.err]
                   /\ hist' = [hist EXCEPT !.call[p] = NoCall, !.owes[p] = NoProvider]
                   /\ tracerProvidersCounter' =
                          MapPut(tracerProvidersCounter, r.key, CounterOf(r.key) + 1)
                   /\ UNCHANGED <<callVars, mu, tracerProviders>>
              ELSE /\ pc' = [pc EXCEPT ![p] = "get_lock"]
                   /\ key' = [key EXCEPT ![p] = r.key]
                   /\ tp' = [tp EXCEPT ![p] = NoProvider]
                   /\ err' = [err EXCEPT ![p] = Nil]
                   /\ ot' = [ot EXCEPT ![p] = [EmptyWrapper EXCEPT
                                                  !.propagators = r.propagators,
                                                  !.tracerProviderKey = r.key]]
                   /\ hist' = [hist EXCEPT !.call[p] = [NoCall EXCEPT !.op = "get",
                                                                      !.exporter = r.exporter],
                                           !.owes[p] = NoProvider]
                   /\ result' = [result EXCEPT ![p] = Nil]
                   /\ UNCHANGED <<otel, cacheVars>>
    /\ UNCHANGED providerVars
    /\ UNCHANGED fn

\* Provision: everything newOpenTelemetryWrapper does before it calls
\* getTracerProvider.  A setup error is returned at once and ot.otel becomes
\* the wrapper returned with it, whose tracerProviderKey is still empty.
\* The instance in slot p is a new one: what the previous one still held
\* stays held for ever.
Provision(p) ==
    /\ pc[p] = "idle"
    /\ calls < MaxCalls
    /\ calls' = calls + 1
    /\ \E r \in SetupOutcomes :
              IF r.err # Nil
              THEN /\ otel' = [otel EXCEPT ![p] = EmptyWrapper]
                   /\ result' = [result EXCEPT ![p] = r.err]
                   /\ hist' = [hist EXCEPT !.call[p] = NoCall, !.owes[p] = NoProvider]
                   /\ UNCHANGED callVars
              ELSE /\ pc' = [pc EXCEPT ![p] = "get_lock"]
                   /\ key' = [key EXCEPT ![p] = r.key]
                   /\ tp' = [tp EXCEPT ![p] = NoProvider]
                   /\ err' = [err EXCEPT ![p] = Nil]
                   /\ ot' = [ot EXCEPT ![p] = [EmptyWrapper EXCEPT
                                                  !.propagators = r.propagators,
                                                  !.tracerProviderKey = r.key]]
                   /\ hist' = [hist EXCEPT !.call[p] = [NoCall EXCEPT !.op = "get",
                                                                      !.exporter = r.exporter],
                                           !.owes[p] = NoProvider]
                   /\ result' = [result EXCEPT ![p] = Nil]
                   /\ UNCHANGED otel
    /\ UNCHANGED <<cacheVars, providerVars>>
    /\ UNCHANGED fn

\* Cleanup -> openTelemetryWrapper.cleanup: calls cleanupTracerProvider with
\* the instance's tracerProviderKey.
Cleanup(p) ==
    /\ pc[p] = "idle"
    /\ calls < MaxCalls
    /\ calls' = calls + 1
    /\ pc' = [pc EXCEPT ![p] = "cleanup_lock"]
    /\ key' = [key EXCEPT ![p] = otel[p].tracerProviderKey]
    /\ tp' = [tp EXCEPT ![p] = NoProvider]
    /\ err' = [err EXCEPT ![p] = Nil]
    /\ hist' = [hist EXCEPT
                  !.call[p] = [NoCall EXCEPT !.op = "cleanup"],
                  !.owes[p] = NoProvider,
                  !.held = IF hist.owes[p] # NoProvider
                           THEN [@ EXCEPT ![hist.owes[p]] = @ - 1]
                           ELSE @,
                  !.disciplined = @ /\ hist.owes[p] # NoProvider]
    /\ result' = [result EXCEPT ![p] = Nil]
    /\ UNCHANGED <<cacheVars, providerVars, otel, ot>>
    /\ UNCHANGED fn

\* ------------------------------------------------------ getTracerProvider
\* line 25: t.mu.Lock()
GetLock(p) ==
    /\ pc[p] = "get_lock"
    /\ mu = NoInstance
    /\ mu' = p
    /\ pc' = [pc EXCEPT ![p] = "get_increment"]
    /\ hist' = [hist EXCEPT !.call[p].absent =
                    key[p] \notin DOMAIN tracerProviders \cup DOMAIN tracerProvidersCounter]
    /\ UNCHANGED <<tracerProviders, tracerProvidersCounter, providerVars,
                   key, ot, tp, err, moduleVars>>
    /\ UNCHANGED fn

\* line 28: t.tracerProvidersCounter[key]++
GetIncrement(p) ==
    /\ pc[p] = "get_increment"
    /\ tracerProvidersCounter' =
           MapPut(tracerProvidersCounter, key[p], CounterOf(key[p]) + 1)
    /\ pc' = [pc EXCEPT ![p] = "get_lookup"]
    /\ UNCHANGED <<mu, tracerProviders, providerVars, key, ot, tp, err, moduleVars, hist>>
    /\ UNCHANGED fn

\* Variant of GetLookup without the test of line 30: always builds a provider.
GetLookup_AlwaysBuild(p) ==
    /\ pc[p] = "get_lookup"
    /\ numCreated' = numCreated + 1
    /\ tracerProviders' = MapPut(tracerProviders, key[p], numCreated + 1)
    /\ tp' = [tp EXCEPT ![p] = numCreated + 1]
    /\ pc' = [pc EXCEPT ![p] = "get_return"]
    /\ hist' = [hist EXCEPT !.owes[p] = tp'[p],
                            !.held[tp'[p]] = @ + 1,
                            !.together[tp'[p]] = @ \/ hist.held[tp'[p]] >= 1,
                            !.builtFor = [@ EXCEPT ![numCreated + 1] = key[p]]]
    /\ UNCHANGED <<mu, tracerProvidersCounter, flushCalls, shutdownCalls, logged,
                   key, ot, err, moduleVars>>
    /\ UNCHANGED fn

\* lines 30-38: return the cached provider, or build one and cache it
GetLookup(p) ==
    /\ pc[p] = "get_lookup"
    /\ IF key[p] \in DOMAIN tracerProviders
       THEN /\ tp' = [tp EXCEPT ![p] = tracerProviders[key[p]]]
            /\ UNCHANGED <<tracerProviders, numCreated>>
       ELSE /\ numCreated' = numCreated + 1
            /\ tracerProviders' = MapPut(tracerProviders, key[p], numCreated + 1)
            /\ tp' = [tp EXCEPT ![p] = numCreated + 1]
    /\ pc' = [pc EXCEPT ![p] = "get_return"]
    /\ hist' = [hist EXCEPT !.call[p].reused = key[p] \in DOMAIN tracerProviders,
                            !.owes[p] = tp'[p],
                            !.held[tp'[p]] = @ + 1,
                            !.together[tp'[p]] = @ \/ hist.held[tp'[p]] >= 1,
                            !.builtFor = IF key[p] \in DOMAIN tracerProviders
                                         THEN @
                                         ELSE [@ EXCEPT ![numCreated + 1] = key[p]]]
    /\ UNCHANGED <<mu, tracerProvidersCounter, flushCalls, shutdownCalls, logged,
                   key, ot, err, moduleVars>>
    /\ UNCHANGED fn

\* line 26 (deferred): t.mu.Unlock(); newOpenTelemetryWrapper stores the key
\* and the tracer and returns nil, Provision assigns ot.otel.  The locals of
\* the call are gone.
GetReturn(p) ==
    /\ pc[p] = "get_return"
    /\ mu' = NoInstance
    /\ pc' = [pc EXCEPT ![p] = "idle"]
    /\ otel' = [otel EXCEPT ![p] = [ot[p] EXCEPT !.tracer = tp[p]]]
    /\ ot' = [ot EXCEPT ![p] = EmptyWrapper]
    /\ result' = [result EXCEPT ![p] = Nil]
    /\ key' = [key EXCEPT ![p] = ""]
    /\ tp' = [tp EXCEPT ![p] = NoProvider]
    /\ hist' = [hist EXCEPT !.call[p] = NoCall,
                            !.acquires = MapPut(@, key[p], MapGet(@, key[p], 0) + 1)]
    /\ UNCHANGED <<tracerProviders, tracerProvidersCounter, providerVars, err, calls>>
    /\ UNCHANGED fn

\* -------------------------------------------------- cleanupTracerProvider
\* line 43: t.mu.Lock()
CleanupLock(p) ==
    /\ pc[p] = "cleanup_lock"
    /\ mu = NoInstance
    /\ mu' = p
    /\ pc' = [pc EXCEPT ![p] = "cleanup_decrement"]
    /\ hist' = [hist EXCEPT !.call[p].absent =
                    key[p] \notin DOMAIN tracerProviders \cup DOMAIN tracerProvidersCounter]
    /\ UNCHANGED <<tracerProviders, tracerProvidersCounter, providerVars,
                   key, ot, tp, err, moduleVars>>
    /\ UNCHANGED fn

\* Variant of CleanupDecrement without the guard of line 46.
CleanupDecrement_Unconditional(p) ==
    /\ pc[p] = "cleanup_decrement"
    /\ tracerProvidersCounter' =
           MapPut(tracerProvidersCounter, key[p], CounterOf(key[p]) - 1)
    /\ pc' = [pc EXCEPT ![p] = "cleanup_check"]
    /\ hist' = [hist EXCEPT !.call[p].hitZero = CounterOf(key[p]) = 1,
                            !.releasedAtZero = @ \/ CounterOf(key[p]) = 0]
    /\ UNCHANGED <<mu, tracerProviders, providerVars, key, ot, tp, err, moduleVars>>
    /\ UNCHANGED fn

\* lines 46-48: if t.tracerProvidersCounter[key] > 0 { t.tracerProvidersCounter[key]-- }
CleanupDecrement(p) ==
    /\ pc[p] = "cleanup_decrement"
    /\ IF CounterOf(key[p]) > 0
       THEN tracerProvidersCounter' =
                MapPut(tracerProvidersCounter, key[p], CounterOf(key[p]) - 1)
       ELSE UNCHANGED tracerProvidersCounter
    /\ pc' = [pc EXCEPT ![p] = "cleanup_check"]
    /\ hist' = [hist EXCEPT !.call[p].hitZero = CounterOf(key[p]) = 1,
                            !.releasedAtZero = @ \/ CounterOf(key[p]) = 0]
    /\ UNCHANGED <<mu, tracerProviders, providerVars, key, ot, tp, err, moduleVars>>
    /\ UNCHANGED fn

\* Variant of CleanupCheck without the test of line 50: every release tears
\* the provider down.
CleanupCheck_IgnoreCounter(p) ==
    /\ pc[p] = "cleanup_check"
    /\ IF key[p] \in DOMAIN tracerProviders
       THEN /\ tp' = [tp EXCEPT ![p] = tracerProviders[key[p]]]
            /\ pc' = [pc EXCEPT ![p] = "cleanup_flush"]
       ELSE /\ pc' = [pc EXCEPT ![p] = "cleanup_delete"]
            /\ UNCHANGED tp
    /\ hist' = [hist EXCEPT !.call[p].atZero = CounterOf(key[p]) = 0,
                            !.call[p].cached = CounterOf(key[p]) = 0
                                               /\ key[p] \in DOMAIN tracerProviders]
    /\ UNCHANGED <<cacheVars, providerVars, key, ot, err, moduleVars>>
    /\ UNCHANGED fn

\* Variant of CleanupCheck without the test of line 51: the entry is deleted
\* without flushing and shutting the provider down.
CleanupCheck_SkipTeardown(p) ==
    /\ pc[p] = "cleanup_check"
    /\ pc' = [pc EXCEPT ![p] = IF CounterOf(key[p]) = 0
                               THEN "cleanup_delete" ELSE "cleanup_return"]
    /\ hist' = [hist EXCEPT !.call[p].atZero = CounterOf(key[p]) = 0,
                            !.call[p].cached = CounterOf(key[p]) = 0
                                               /\ key[p] \in DOMAIN tracerProviders]
    /\ UNCHANGED <<cacheVars, providerVars, key, ot, tp, err, moduleVars>>
    /\ UNCHANGED fn

\* Variant of CleanupCheck that unlocks the mutex before it flushes and shuts
\* the provider down.
CleanupCheck_UnlockForTeardown(p) ==
    /\ pc[p] = "cleanup_check"
    /\ IF CounterOf(key[p]) = 0
       THEN IF key[p] \in DOMAIN tracerProviders
            THEN /\ tp' = [tp EXCEPT ![p] = tracerProviders[key[p]]]
                 /\ pc' = [pc EXCEPT ![p] = "cleanup_flush"]
                 /\ mu' = NoInstance
            ELSE /\ pc' = [pc EXCEPT ![p] = "cleanup_delete"]
                 /\ UNCHANGED <<tp, mu>>
       ELSE /\ pc' = [pc EXCEPT ![p] = "cleanup_return"]
            /\ UNCHANGED <<tp, mu>>
    /\ hist' = [hist EXCEPT !.call[p].atZero = CounterOf(key[p]) = 0,
                            !.call[p].cached = CounterOf(key[p]) = 0
                                               /\ key[p] \in DOMAIN tracerProviders]
    /\ UNCHANGED <<tracerProviders, tracerProvidersCounter, providerVars, key, ot, err,
                   moduleVars>>
    /\ UNCHANGED fn

\* lines 50-51: if t.tracerProvidersCounter[key] == 0 {
\*                  if tracerProvider, ok := t.tracerProviders[key]; ok {
CleanupCheck(p) ==
    /\ pc[p] = "cleanup_check"
    /\ IF CounterOf(key[p]) = 0
       THEN IF key[p] \in DOMAIN tracerProviders
            THEN /\ tp' = [tp EXCEPT ![p] = tracerProviders[key[p]]]
                 /\ pc' = [pc EXCEPT ![p] = "cleanup_flush"]
            ELSE /\ pc' = [pc EXCEPT ![p] = "cleanup_delete"]
                 /\ UNCHANGED tp
       ELSE /\ pc' = [pc EXCEPT ![p] = "cleanup_return"]
            /\ UNCHANGED tp
    /\ hist' = [hist EXCEPT !.call[p].atZero = CounterOf(key[p]) = 0,
                            !.call[p].cached = CounterOf(key[p]) = 0
                                               /\ key[p] \in DOMAIN tracerProviders]
    /\ UNCHANGED <<cacheVars, providerVars, key, ot, err, moduleVars>>
    /\ UNCHANGED fn

\* Variant of CleanupForceFlush that returns the flush error instead of
\* logging it.
CleanupForceFlush_ReturnOnError(p) ==
    /\ pc[p] = "cleanup_flush"
    /\ flushCalls' = [flushCalls EXCEPT ![tp[p]] = @ + 1]
    /\ \E flushErr \in {Nil, ErrForceFlush} :
          /\ hist' = [hist EXCEPT !.call[p].events =
                          Append(@, <<IF flushErr # Nil THEN "flush_error" ELSE "flush_ok", tp[p]>>)]
          /\ IF flushErr # Nil
             THEN /\ err' = [err EXCEPT ![p] = Wrap("forceFlush error", flushErr)]
                  /\ pc' = [pc EXCEPT ![p] = "cleanup_return"]
             ELSE /\ pc' = [pc EXCEPT ![p] = "cleanup_shutdown"]
                  /\ UNCHANGED err
    /\ UNCHANGED <<cacheVars, numCreated, shutdownCalls, logged, key, ot, tp, moduleVars>>
    /\ UNCHANGED fn

\* lines 53-55: tracerProvider.ForceFlush; its error is logged and dropped
CleanupForceFlush(p) ==
    /\ pc[p] = "cleanup_flush"
    /\ flushCalls' = [flushCalls EXCEPT ![tp[p]] = @ + 1]
    /\ \E flushErr \in {Nil, ErrForceFlush} :
          /\ logged' = IF flushErr # Nil THEN logged + 1 ELSE logged
          /\ hist' = [hist EXCEPT !.call[p].events =
                          Append(@, <<IF flushErr # Nil THEN "flush_error" ELSE "flush_ok", tp[p]>>)]
    /\ pc' = [pc EXCEPT ![p] = "cleanup_shutdown"]
    /\ UNCHANGED <<cacheVars, numCreated, shutdownCalls, key, ot, tp, err, moduleVars>>
    /\ UNCHANGED fn

\* Variant of CleanupShutdown that drops the shutdown error.
CleanupShutdown_SwallowError(p) ==
    /\ pc[p] = "cleanup_shutdown"
    /\ shutdownCalls' = [shutdownCalls EXCEPT ![tp[p]] = @ + 1]
    /\ \E shutdownErr \in {Nil, ErrShutdown} :
          hist' = [hist EXCEPT !.call[p].events =
                      Append(@, <<IF shutdownErr # Nil THEN "shutdown_error"
                                                      ELSE "shutdown_ok", tp[p]>>)]
    /\ pc' = [pc EXCEPT ![p] = "cleanup_delete"]
    /\ UNCHANGED <<cacheVars, numCreated, flushCalls, logged, key, ot, tp, err, moduleVars>>
    /\ UNCHANGED fn

\* lines 58-60: tracerProvider.Shutdown; its error is wrapped and returned
CleanupShutdown(p) ==
    /\ pc[p] = "cleanup_shutdown"
    /\ shutdownCalls' = [shutdownCalls EXCEPT ![tp[p]] = @ + 1]
    /\ \E shutdownErr \in {Nil, ErrShutdown} :
          IF shutdownErr # Nil
          THEN /\ err' = [err EXCEPT ![p] =
                              Wrap("tracerProviderCache shutdown error", shutdownErr)]
               /\ pc' = [pc EXCEPT ![p] = "cleanup_return"]
               /\ hist' = [hist EXCEPT !.call[p].events = Append(@, <<"shutdown_error", tp[p]>>)]
          ELSE /\ pc' = [pc EXCEPT ![p] = "cleanup_delete"]
               /\ hist' = [hist EXCEPT !.call[p].events = Append(@, <<"shutdown_ok", tp[p]>>)]
               /\ UNCHANGED err
    /\ UNCHANGED <<cacheVars, numCreated, flushCalls, logged, key, ot, tp, moduleVars>>
    /\ UNCHANGED fn

\* Variant of CleanupDelete without the delete of line 64: the counter stays.
CleanupDelete_ProviderOnly(p) ==
    /\ pc[p] = "cleanup_delete"
    /\ tracerProviders' = MapDelete(tracerProviders, key[p])
    /\ pc' = [pc EXCEPT ![p] = "cleanup_return"]
    /\ hist' = [hist EXCEPT !.call[p].events = Append(@, <<"delete", tp[p]>>)]
    /\ UNCHANGED <<mu, tracerProvidersCounter, providerVars, key, ot, tp, err, moduleVars>>
    /\ UNCHANGED fn

\* Variant of CleanupDelete that empties both maps.
CleanupDelete_AllKeys(p) ==
    /\ pc[p] = "cleanup_delete"
    /\ tracerProviders' = EmptyMap
    /\ tracerProvidersCounter' = EmptyMap
    /\ pc' = [pc EXCEPT ![p] = "cleanup_return"]
    /\ hist' = [hist EXCEPT !.call[p].events = Append(@, <<"delete", tp[p]>>)]
    /\ UNCHANGED <<mu, providerVars, key, ot, tp, err, moduleVars>>
    /\ UNCHANGED fn

\* lines 63-64: delete(t.tracerProviders, key); delete(t.tracerProvidersCounter, key)
CleanupDelete(p) ==
    /\ pc[p] = "cleanup_delete"
    /\ tracerProviders' = MapDelete(tracerProviders, key[p])
    /\ tracerProvidersCounter' = MapDelete(tracerProvidersCounter, key[p])
    /\ pc' = [pc EXCEPT ![p] = "cleanup_return"]
    /\ hist' = [hist EXCEPT !.call[p].events = Append(@, <<"delete", tp[p]>>)]
    /\ UNCHANGED <<mu, providerVars, key, ot, tp, err, moduleVars>>
    /\ UNCHANGED fn

\* Variant of CleanupReturn with the Unlock as the last statement instead
\* of a deferred call: the early return after a failed Shutdown skips it.
CleanupReturn_NoUnlockOnError(p) ==
    /\ pc[p] = "cleanup_return"
    /\ mu' = IF err[p] # Nil THEN mu ELSE NoInstance
    /\ pc' = [pc EXCEPT ![p] = "idle"]
    /\ result' = [result EXCEPT ![p] =
                      IF err[p] # Nil THEN Wrap("tracerProvider shutdown", err[p]) ELSE Nil]
    /\ key' = [key EXCEPT ![p] = ""]
    /\ tp' = [tp EXCEPT ![p] = NoProvider]
    /\ err' = [err EXCEPT ![p] = Nil]
    /\ hist' = [hist EXCEPT !.call[p] = NoCall,
                            !.releases = MapPut(@, key[p], MapGet(@, key[p], 0) + 1)]
    /\ UNCHANGED <<tracerProviders, tracerProvidersCounter, providerVars, otel, calls, ot>>
    /\ UNCHANGED fn

\* line 44 (deferred): t.mu.Unlock(); Cleanup wraps a non-nil error once more.
\* The locals of the call are gone.
CleanupReturn(p) ==
    /\ pc[p] = "cleanup_return"
    /\ mu' = NoInstance
    /\ pc' = [pc EXCEPT ![p] = "idle"]
    /\ result' = [result EXCEPT ![p] =
                      IF err[p] # Nil THEN Wrap("tracerProvider shutdown", err[p]) ELSE Nil]
    /\ key' = [key EXCEPT ![p] = ""]
    /\ tp' = [tp EXCEPT ![p] = NoProvider]
    /\ err' = [err EXCEPT ![p] = Nil]
    /\ hist' = [hist EXCEPT !.call[p] = NoCall,
                            !.releases = MapPut(@, key[p], MapGet(@, key[p], 0) + 1)]
    /\ UNCHANGED <<tracerProviders, tracerProvidersCounter, providerVars, otel, calls, ot>>
    /\ UNCHANGED fn

\* ---------------------------------------------------------- specification
Next ==
    \E p \in Instances :
        \/ Provision(p)
        \/ Cleanup(p)
        \/ GetLock(p)
        \/ GetIncrement(p)
        \/ GetLookup(p)
        \/ GetReturn(p)
        \/ CleanupLock(p)
        \/ CleanupDecrement(p)
        \/ CleanupCheck(p)
        \/ CleanupForceFlush(p)
        \/ CleanupShutdown(p)
        \/ CleanupDelete(p)
        \/ CleanupReturn(p)

Spec == Init /\ [][Next]_vars

\* The steps of instance p inside the two cache functions, Lock included.
RegistryStep(p) ==
    \/ GetLock(p)
    \/ GetIncrement(p)
    \/ GetLookup(p)
    \/ GetReturn(p)
    \/ CleanupLock(p)
    \/ CleanupDecrement(p)
    \/ CleanupCheck(p)
    \/ CleanupForceFlush(p)
    \/ CleanupShutdown(p)
    \/ CleanupDelete(p)
    \/ CleanupReturn(p)

\* Spec with a fair scheduler: an instance that can go on inside a cache
\* function does so, which includes that ForceFlush and Shutdown return and
\* that an instance waiting in Lock gets a mutex that stays free.  This is
\* the least a fair scheduler and sync.Mutex guarantee.  Nothing obliges
\* Provision or Cleanup to be called.
FairSpec ==
    /\ Spec
    /\ \A p \in Instances : WF_vars(RegistryStep(p))

\* ------------------------------------------- getPropagators on its own
\* The propagators values tried: up to MaxTokens pieces joined by commas, each
\* piece a recognised name, an unrecognised one, a name with white space
\* around it, nothing, or white space.
PropagatorTokens ==
    {Str_tracecontext, Str_baggage, Str_foo, <<" ">> \o Str_tracecontext,
     Str_baggage \o <<"\t">>, EmptyString, <<" ">>}

RECURSIVE JoinComma(_)
JoinComma(tokens) ==
    IF Len(tokens) = 0 THEN EmptyString
    ELSE IF Len(tokens) = 1 THEN tokens[1]
    ELSE tokens[1] \o <<",">> \o JoinComma(Tail(tokens))

\* The name a codec is configured by, and a composite written back as a
\* propagators value.
CodecName(codec) == IF codec = "baggage" THEN Str_baggage ELSE Str_tracecontext
CompositeString(codecs) == JoinComma([i \in 1..Len(codecs) |-> CodecName(codecs[i])])

PropInit ==
    /\ Unstarted
    /\ \E t \in PropagatorTokens :
          fn = [name |-> "getPropagators", pc |-> "build", tokens |-> <<t>>,
                out |-> <<>>, again |-> <<>>]

\* one more piece for the value
PropAppend ==
    /\ fn.pc = "build"
    /\ Len(fn.tokens) < MaxTokens
    /\ \E t \in PropagatorTokens : fn' = [fn EXCEPT !.tokens = Append(@, t)]
    /\ UNCHANGED lifecycleVars

\* line 110: ot.getPropagators(propagators)
PropCall ==
    /\ fn.pc = "build"
    /\ fn' = [fn EXCEPT !.pc = "called", !.out = getPropagators(JoinComma(fn.tokens))]
    /\ UNCHANGED lifecycleVars

\* getPropagators applied to the names of the codecs it returned
PropAgain ==
    /\ fn.pc = "called"
    /\ fn' = [fn EXCEPT !.pc = "done", !.again = getPropagators(CompositeString(fn.out))]
    /\ UNCHANGED lifecycleVars

PropNext == PropAppend \/ PropCall \/ PropAgain

PropSpec == PropInit /\ [][PropNext]_vars

\* ---------------------------------- newOpenTelemetryWrapper on its own
\* The configurations and environments tried: protocols unset, supported and
\* unsupported in each of the three places, propagators unset, recognised,
\* unrecognised and made of separators and white space.
SetupConfigs ==
    [ServiceName : ServiceNames, TracerName : TracerNames,
     Propagators : {EmptyString, Str_tracecontext, Str_foo, <<" ", ",", " ">>},
     ExporterTracesProtocol : {"", "grpc", "http/1.1"},
     ExporterInsecure : InsecureValues,
     ExporterCertificate : Certificates,
     ExporterTracesEndpoint : Endpoints]

SetupEnvironments ==
    [OTEL_EXPORTER_OTLP_TRACES_PROTOCOL : {"", "grpc", "http/json"},
     OTEL_EXPORTER_OTLP_PROTOCOL : {"", "grpc", "http/protobuf"},
     OTEL_PROPAGATORS : {EmptyString, Str_baggage, Str_foo}]

SetupInit ==
    /\ Unstarted
    /\ \E cfg \in SetupConfigs, env \in SetupEnvironments :
          fn = [name |-> "newOpenTelemetryWrapper", pc |-> "call", cfg |-> cfg,
                env |-> env, resourceFails |-> FALSE, exporterFails |-> FALSE,
                r |-> SetupError(Nil, FALSE)]

\* lines 62-129, with the outcome of the resource and exporter constructors
SetupCall ==
    /\ fn.pc = "call"
    /\ \E resourceFails, exporterFails \in BOOLEAN :
          fn' = [fn EXCEPT !.pc = "returned",
                           !.resourceFails = resourceFails,
                           !.exporterFails = exporterFails,
                           !.r = newOpenTelemetryWrapper(fn.cfg, fn.env,
                                                         resourceFails, exporterFails)]
    /\ UNCHANGED lifecycleVars

SetupNext == SetupCall

SetupSpec == SetupInit /\ [][SetupNext]_vars

\* --------------------------------------------- tracerProviderKey on its own
\* The six values the key is formatted from, for two setups.  Service name,
\* tracer name, certificate and endpoint are free text of the configuration.
KeyInputs ==
    [serviceName : {"a", "a-b"}, tracerName : {"c", "b-c"}, protocol : {"grpc"},
     insecure : BOOLEAN, certificate : {"", "x"}, endpoint : {"", "x"}]

KeyOf(t) ==
    tracerProviderKey(t.serviceName, t.tracerName, t.protocol, t.insecure,
                      t.certificate, t.endpoint)

KeyInit ==
    /\ Unstarted
    /\ \E t1, t2 \in KeyInputs :
          fn = [name |-> "tracerProviderKey", pc |-> "call", first |-> t1,
                second |-> t2, firstKey |-> "", secondKey |-> ""]

\* lines 113-120 in the two setups
KeyCall ==
    /\ fn.pc = "call"
    /\ fn' = [fn EXCEPT !.pc = "returned",
                        !.firstKey = KeyOf(fn.first),
                        !.secondKey = KeyOf(fn.second)]
    /\ UNCHANGED lifecycleVars

KeyNext == KeyCall

KeySpec == KeyInit /\ [][KeyNext]_vars

\* ------------------------------------------------------------ ServeHTTP
\* Trace and span IDs; ZeroID is the all-zero ID, which is not valid.
ZeroID == 0
IDs == 0..MaxID
NoTraceparent == [present |-> FALSE, trace |-> ZeroID, span |-> ZeroID, sampled |-> FALSE]
Traceparents ==
    {NoTraceparent} \cup
    [present : {TRUE}, trace : IDs, span : IDs, sampled : BOOLEAN]
BaggageValues == {"", "k=v"}
Headers == [traceparent : Traceparents, baggage : BaggageValues]

\* A span context is valid when neither ID is all zeros.
IsValid(sc) == sc.trace # ZeroID /\ sc.span # ZeroID
NoSpanContext == [trace |-> ZeroID, span |-> ZeroID, sampled |-> FALSE]
EmptyContext == [spanContext |-> NoSpanContext, baggage |-> ""]

\* propagators.Extract: each codec of the composite in turn reads its header
\* into the context; TraceContext ignores a traceparent that is not valid.
RECURSIVE Extract(_, _, _)
Extract(codecs, ctx, header) ==
    IF codecs = <<>> THEN ctx
    ELSE Extract(Tail(codecs),
             IF Head(codecs) = "tracecontext"
             THEN IF header.traceparent.present /\ IsValid(header.traceparent)
                  THEN [ctx EXCEPT !.spanContext =
                            [trace |-> header.traceparent.trace,
                             span |-> header.traceparent.span,
                             sampled |-> header.traceparent.sampled]]
                  ELSE ctx
             ELSE IF header.baggage # "" THEN [ctx EXCEPT !.baggage = header.baggage]
                  ELSE ctx,
             header)

\* propagators.Inject: each codec of the composite in turn writes its header
\* from the context; TraceContext writes nothing for a span context that is
\* not valid, Baggage nothing for an empty baggage.
RECURSIVE Inject(_, _, _)
Inject(codecs, ctx, header) ==
    IF codecs = <<>> THEN header
    ELSE Inject(Tail(codecs), ctx,
             IF Head(codecs) = "tracecontext"
             THEN IF IsValid(ctx.spanContext)
                  THEN [header EXCEPT !.traceparent =
                            [present |-> TRUE,
                             trace |-> ctx.spanContext.trace,
                             span |-> ctx.spanContext.span,
                             sampled |-> ctx.spanContext.sampled]]
                  ELSE header
             ELSE IF ctx.baggage # "" THEN [header EXCEPT !.baggage = ctx.baggage]
                  ELSE header)

\* The propagators values of the middlewares serving requests.
ServePropagators ==
    {Str_tracecontext, Str_baggage,
     JoinComma(<<Str_tracecontext, Str_baggage>>),
     JoinComma(<<Str_baggage, Str_tracecontext>>)}

HandlerErrors == {Nil, <<"handler error">>}

\* The order of the statements of ServeHTTP.
ServeSteps == <<"extract", "start", "inject", "next", "end">>

\* A middleware set up with one of the propagators values gets a request.
\*   incoming  r.Header as the request arrived
\*   header    r.Header
\*   ctx       the context passed on: from Extract, then from tracer.Start
\*   seen      r.Header as next.ServeHTTP got it
\*   nextCalls next.ServeHTTP calls
\*   handlerRet  what next.ServeHTTP returned
\*   panicked  next.ServeHTTP panicked instead of returning
\*   ended     span.End() calls
\*   ret       what ServeHTTP returns
\*   returned  ServeHTTP has returned (it does not after a panic)
\*   steps     the statements executed so far, in order
ServeInit ==
    /\ Unstarted
    /\ \E value \in ServePropagators, header \in Headers :
          fn = [name |-> "ServeHTTP", pc |-> "extract",
                propagators |-> getPropagators(value),
                incoming |-> header, header |-> header,
                ctx |-> EmptyContext, seen |-> header,
                nextCalls |-> 0, handlerRet |-> Nil, panicked |-> FALSE,
                ended |-> 0, ret |-> Nil, returned |-> FALSE, steps |-> <<>>]

\* line 135: ot.propagators.Extract(r.Context(), propagation.HeaderCarrier(r.Header))
ServeExtract ==
    /\ fn.pc = "extract"
    /\ fn' = [fn EXCEPT !.pc = "start", !.steps = Append(@, "extract"),
                        !.ctx = Extract(fn.propagators, EmptyContext, fn.header)]
    /\ UNCHANGED lifecycleVars

\* Variant of ServeStart that starts every span as the root of a new trace.
ServeStart_NewRoot ==
    /\ fn.pc = "start"
    /\ \E newTrace, newSpan \in IDs \ {ZeroID} :
          /\ newSpan # fn.incoming.traceparent.span
          /\ fn' = [fn EXCEPT !.pc = "inject", !.steps = Append(@, "start"),
                              !.ctx.spanContext =
                                  [trace |-> newTrace, span |-> newSpan, sampled |-> TRUE]]
    /\ UNCHANGED lifecycleVars

\* lines 134-137: ot.tracer.Start(ctx, ot.spanName).  The span continues the
\* trace of a valid span context in ctx and otherwise starts a trace; the
\* IDs come from the SDK's generator: not all zeros, and the span ID not
\* the one the request came with.
ServeStart ==
    /\ fn.pc = "start"
    /\ \E newTrace, newSpan \in IDs \ {ZeroID} :
          /\ newSpan # fn.incoming.traceparent.span
          /\ fn' = [fn EXCEPT !.pc = "inject", !.steps = Append(@, "start"),
                              !.ctx.spanContext =
                                  IF IsValid(fn.ctx.spanContext)
                                  THEN [fn.ctx.spanContext EXCEPT !.span = newSpan]
                                  ELSE [trace |-> newTrace, span |-> newSpan,
                                        sampled |-> TRUE]]
    /\ UNCHANGED lifecycleVars

\* Variant of ServeInject that leaves the request headers as they came.
ServeInject_Nothing ==
    /\ fn.pc = "inject"
    /\ fn' = [fn EXCEPT !.pc = "next", !.steps = Append(@, "inject")]
    /\ UNCHANGED lifecycleVars

\* line 140: ot.propagators.Inject(ctx, propagation.HeaderCarrier(r.Header))
ServeInject ==
    /\ fn.pc = "inject"
    /\ fn' = [fn EXCEPT !.pc = "next", !.steps = Append(@, "inject"),
                        !.header = Inject(fn.propagators, fn.ctx, fn.header)]
    /\ UNCHANGED lifecycleVars

\* Variant of ServeNextHandler that calls the next handler again when it
\* returned an error.
ServeNextHandler_Retry ==
    /\ fn.pc = "next"
    /\ \E handlerErr \in HandlerErrors, panics \in BOOLEAN :
          fn' = [fn EXCEPT !.pc = IF handlerErr # Nil /\ ~panics /\ fn.nextCalls = 0
                                  THEN "next" ELSE "end",
                           !.seen = fn.header,
                           !.nextCalls = @ + 1,
                           !.handlerRet = IF panics THEN Nil ELSE handlerErr,
                           !.panicked = panics,
                           !.steps = IF fn.nextCalls = 0 THEN Append(@, "next") ELSE @]
    /\ UNCHANGED lifecycleVars

\* line 142: next.ServeHTTP(w, r), which returns nil or an error, or panics
ServeNextHandler ==
    /\ fn.pc = "next"
    /\ \E handlerErr \in HandlerErrors, panics \in BOOLEAN :
          fn' = [fn EXCEPT !.pc = "end", !.seen = fn.header,
                           !.nextCalls = @ + 1,
                           !.handlerRet = IF panics THEN Nil ELSE handlerErr,
                           !.panicked = panics,
                           !.steps = Append(@, "next")]
    /\ UNCHANGED lifecycleVars

\* Variant of ServeEnd with span.End() as the last statement instead of a
\* deferred call: a panic of the next handler skips it.
ServeEnd_NotDeferred ==
    /\ fn.pc = "end"
    /\ fn' = [fn EXCEPT !.pc = "done",
                        !.ended = IF fn.panicked THEN @ ELSE @ + 1,
                        !.steps = IF fn.panicked THEN @ ELSE Append(@, "end"),
                        !.ret = fn.handlerRet,
                        !.returned = ~fn.panicked]
    /\ UNCHANGED lifecycleVars

\* line 138 (deferred): span.End(); then ServeHTTP returns what the next
\* handler returned, or the panic goes on to the caller
ServeEnd ==
    /\ fn.pc = "end"
    /\ fn' = [fn EXCEPT !.pc = "done", !.ended = @ + 1,
                        !.steps = Append(@, "end"),
                        !.ret = fn.handlerRet,
                        !.returned = ~fn.panicked]
    /\ UNCHANGED lifecycleVars

ServeNext ==
    \/ ServeExtract
    \/ ServeStart
    \/ ServeInject
    \/ ServeNextHandler
    \/ ServeEnd

ServeSpec == ServeInit /\ [][ServeNext]_vars

TypeOK ==
    /\ mu \in Instances \cup {NoInstance}
    /\ numCreated \in 0..MaxCalls
    /\ \A k \in DOMAIN tracerProviders : tracerProviders[k] \in 1..numCreated
    /\ \A k \in DOMAIN tracerProvidersCounter : tracerProvidersCounter[k] \in Int

\* ------------------------------------------------------------- properties
Quiescent == \A p \in Instances : pc[p] = "idle"

Built == 1..numCreated

\* C1: while a key has an entry, every getTracerProvider(key) returns the
\* provider cached for it, that entry is never replaced and no further provider
\* is built for the key, whatever the interleaving of the calls; a provider is
\* only ever returned for the key it was built for, so two calls with different
\* keys never return the same provider.
C1_SameProviderWhileLive ==
    /\ [](\A p \in Instances : pc[p] = "get_return" =>
            /\ key[p] \in DOMAIN tracerProviders
            /\ tp[p] = tracerProviders[key[p]]
            /\ hist.builtFor[tp[p]] = key[p])
    /\ [][/\ \A k \in DOMAIN tracerProviders \cap DOMAIN tracerProviders' :
                tracerProviders'[k] = tracerProviders[k]
          /\ numCreated' # numCreated =>
                /\ numCreated' = numCreated + 1
                /\ \E k \in DOMAIN tracerProviders' \ DOMAIN tracerProviders :
                      tracerProviders'[k] = numCreated']_vars

\* Two instances share the provider of one key while another key has its own.
C1_Witness ==
    /\ numCreated >= 2
    /\ \E p, q \in Instances :
          /\ p # q
          /\ otel[p].tracer # NoProvider
          /\ otel[p] = otel[q]
          /\ hist.acquires[otel[p].tracerProviderKey] >= 2

AllKeys == DOMAIN tracerProviders \cup DOMAIN tracerProvidersCounter
                \cup DOMAIN hist.acquires \cup DOMAIN hist.releases

Acquires(k) == MapGet(hist.acquires, k, 0)
Releases(k) == MapGet(hist.releases, k, 0)

\* The kinds of the events of a call, outcome dropped.
Kind(e) ==
    CASE e[1] \in {"flush_ok", "flush_error"} -> "flush"
      [] e[1] \in {"shutdown_ok", "shutdown_error"} -> "shutdown"
      [] OTHER -> e[1]
Kinds(events) == [i \in 1..Len(events) |-> Kind(events[i])]
Has(events, kind) == \E i \in 1..Len(events) : events[i][1] = kind

\* The instance has done everything of its cache call but the unlock.
Finished(p, op) ==
    /\ hist.call[p].op = op
    /\ pc[p] = (IF op = "get" THEN "get_return" ELSE "cleanup_return")

\* C2: when no call is in progress and no release has found its key's counter
\* at 0, each key's counter is the number of returned acquires minus the number
\* of returned releases, and as many providers are cached as keys have a
\* positive counter.
C2_CounterMatchesCalls ==
    (Quiescent /\ ~hist.releasedAtZero) =>
        /\ \A k \in AllKeys : CounterOf(k) = Acquires(k) - Releases(k)
        /\ Cardinality(DOMAIN tracerProviders) =
               Cardinality({k \in AllKeys : CounterOf(k) > 0})

\* C3: as long as every Cleanup was called by an instance after its own
\* successful setup and at most once, no step invokes ForceFlush or Shutdown on
\* a provider that some instance has acquired and not yet called Cleanup for.
C3_NoTeardownWhileHeld ==
    [][\A x \in Providers :
          (/\ hist.disciplined
           /\ \/ flushCalls'[x] # flushCalls[x]
              \/ shutdownCalls'[x] # shutdownCalls[x])
          => hist.held[x] = 0]_vars

\* Two instances shared a provider, both released it, and it was shut down.
C3_Witness ==
    /\ hist.disciplined
    /\ \E x \in Built :
          /\ shutdownCalls[x] >= 1
          /\ Acquires(hist.builtFor[x]) >= 2
          /\ numCreated = 1

\* C4: over the acquires and releases of one key (no release finding the
\* counter at 0), no provider built for the key is shut down more than once;
\* while acquires exceed releases one provider is cached and not shut down; and
\* once the releases equal the acquires every provider built for the key has
\* been shut down.
C4_BuiltOnceShutDownOnce ==
    (Quiescent /\ ~hist.releasedAtZero) =>
        \A k \in DOMAIN hist.acquires :
            /\ \A x \in Built : hist.builtFor[x] = k => shutdownCalls[x] <= 1
            /\ Acquires(k) > Releases(k) =>
                  /\ k \in DOMAIN tracerProviders
                  /\ shutdownCalls[tracerProviders[k]] = 0
            /\ Acquires(k) = Releases(k) =>
                  \A x \in Built : hist.builtFor[x] = k => shutdownCalls[x] = 1

\* C5: when no call is in progress, a key has a cached provider if and only
\* if its counter is at least 1.
C5_EntryIffCounterPositive ==
    Quiescent =>
        \A k \in AllKeys : (k \in DOMAIN tracerProviders) <=> (CounterOf(k) >= 1)

\* C6: a release that took its key's counter from 1 to 0 with a provider
\* cached does ForceFlush, then Shutdown, then the delete, in that order and
\* on that provider: what it has done so far is always a prefix of
\* flush, shutdown, delete, and when it returns both flush and shutdown have
\* been attempted.
C6_FlushShutdownDelete ==
    \A p \in Instances :
        LET c == hist.call[p] IN
        (c.op = "cleanup" /\ c.hitZero /\ c.cached) =>
            /\ Kinds(c.events) \in {<<>>, <<"flush">>, <<"flush", "shutdown">>,
                                     <<"flush", "shutdown", "delete">>}
            /\ \A i \in 1..Len(c.events) : c.events[i][2] = tp[p]
            /\ pc[p] = "cleanup_return" => Len(c.events) >= 2
            /\ pc[p] = "cleanup_flush" <=> Len(c.events) = 0
            /\ pc[p] = "cleanup_shutdown" <=> Len(c.events) = 1

\* A last release has flushed, shut down and deleted.
C6_Witness ==
    \E p \in Instances :
        /\ hist.call[p].hitZero /\ hist.call[p].cached
        /\ pc[p] = "cleanup_return"
        /\ Kinds(hist.call[p].events) = <<"flush", "shutdown", "delete">>

\* C7: a release that took its key's counter from 1 to 0 has removed the key
\* from both maps when it returns, whatever flush and shutdown returned.
C7_EntryRemovedAtZero ==
    \A p \in Instances :
        (Finished(p, "cleanup") /\ hist.call[p].hitZero) =>
            /\ key[p] \notin DOMAIN tracerProviders
            /\ key[p] \notin DOMAIN tracerProvidersCounter

\* The call of p found the counter at 0 and its Shutdown returned an error.
ShutdownFailed(p) ==
    hist.call[p].atZero /\ Has(hist.call[p].events, "shutdown_error")

CacheShutdownError == Wrap("tracerProviderCache shutdown error", ErrShutdown)

\* C8: cleanupTracerProvider returns the shutdown error wrapped once exactly
\* when it found the counter at 0 and Shutdown failed, and nil otherwise; on
\* its return Cleanup returns that error wrapped once more, and nil otherwise.
C8_ShutdownErrorReturned ==
    /\ [](\A p \in Instances :
            /\ Finished(p, "cleanup") =>
                  err[p] = (IF ShutdownFailed(p) THEN CacheShutdownError ELSE Nil)
            /\ (hist.call[p].op = "cleanup" /\ ~hist.call[p].atZero) =>
                  hist.call[p].events = <<>>)
    /\ [][\A p \in Instances :
            (Finished(p, "cleanup") /\ pc'[p] = "idle") =>
                result'[p] = (IF ShutdownFailed(p)
                              THEN Wrap("tracerProvider shutdown", CacheShutdownError)
                              ELSE Nil)]_vars

\* A Cleanup has returned the doubly wrapped shutdown error.
C8_Witness ==
    \E p \in Instances :
        /\ pc[p] = "idle"
        /\ result[p] = <<"tracerProvider shutdown",
                         "tracerProviderCache shutdown error", "shutdown error">>

\* C9: when ForceFlush fails, Shutdown is still invoked on the same provider,
\* the flush error is logged and is no part of what the release or Cleanup
\* returns, and if Shutdown succeeds the release returns nil with the key
\* removed from both maps.
C9_FlushErrorNotFatal ==
    \A p \in Instances :
        LET c == hist.call[p] IN
        /\ ~ErrorsIs(err[p], ErrForceFlush)
        /\ ~ErrorsIs(result[p], ErrForceFlush)
        /\ (c.op = "cleanup" /\ Has(c.events, "flush_error")) =>
            /\ logged >= 1
            /\ pc[p] \in {"cleanup_shutdown", "cleanup_delete", "cleanup_return"}
            /\ pc[p] # "cleanup_shutdown" =>
                  /\ Len(c.events) >= 2
                  /\ Kind(c.events[2]) = "shutdown"
                  /\ c.events[2][2] = c.events[1][2]
            /\ (Finished(p, "cleanup") /\ Has(c.events, "shutdown_ok")) =>
                  /\ err[p] = Nil
                  /\ key[p] \notin DOMAIN tracerProviders
                  /\ key[p] \notin DOMAIN tracerProvidersCounter

\* A release whose flush failed and whose shutdown succeeded is about to return.
C9_Witness ==
    \E p \in Instances :
        /\ Finished(p, "cleanup")
        /\ [i \in 1..Len(hist.call[p].events) |-> hist.call[p].events[i][1]]
              = <<"flush_error", "shutdown_ok", "delete">>

\* C10: a release of a key that is in neither map when the release takes the
\* lock changes neither map, invokes neither ForceFlush nor Shutdown, and
\* returns nil, as does Cleanup; and no counter is ever negative.
C10_ReleaseOfAbsentKeyIsNoop ==
    /\ [](\A k \in DOMAIN tracerProvidersCounter : tracerProvidersCounter[k] >= 0)
    /\ [](\A p \in Instances :
            (hist.call[p].op = "cleanup" /\ hist.call[p].absent) =>
                /\ \A i \in 1..Len(hist.call[p].events) :
                      Kind(hist.call[p].events[i]) = "delete"
                /\ err[p] = Nil)
    /\ [][\A p \in Instances :
            (mu = p /\ hist.call[p].op = "cleanup" /\ hist.call[p].absent) =>
                /\ tracerProviders' = tracerProviders
                /\ tracerProvidersCounter' = tracerProvidersCounter
                /\ flushCalls' = flushCalls
                /\ shutdownCalls' = shutdownCalls
                /\ pc'[p] = "idle" => result'[p] = Nil]_vars

\* A release of a key whose entry was acquired and removed before is about
\* to return.
C10_Witness ==
    \E p \in Instances :
        /\ Finished(p, "cleanup")
        /\ hist.call[p].absent
        /\ Acquires(key[p]) >= 1

\* The providers built for key k.
BuiltFor(k) == {x \in Built : hist.builtFor[x] = k}

\* C11: two instances whose setups computed the same key, the second set up
\* before the first ran Cleanup, share one entry:
\* once both setups have returned and neither has called Cleanup the key has
\* one cached provider, used by both, with counter 2; once both have also run
\* Cleanup the counter is 0, the key is in neither map, and Shutdown was
\* invoked exactly once on the one provider built for the key.
C11_TwoInstancesShareOneEntry ==
    \A p, q \in Instances :
        LET k == otel[p].tracerProviderKey IN
        (/\ p # q
         /\ Quiescent
         /\ hist.disciplined
         /\ otel[p].tracer # NoProvider
         /\ otel[q].tracerProviderKey = k
         /\ hist.together[otel[p].tracer]
         /\ Acquires(k) = 2) =>
            /\ (hist.owes[p] # NoProvider /\ hist.owes[q] # NoProvider) =>
                  /\ k \in DOMAIN tracerProviders
                  /\ CounterOf(k) = 2
                  /\ otel[p].tracer = tracerProviders[k]
                  /\ otel[q].tracer = tracerProviders[k]
            /\ Releases(k) = 2 =>
                  /\ CounterOf(k) = 0
                  /\ k \notin DOMAIN tracerProviders
                  /\ k \notin DOMAIN tracerProvidersCounter
                  /\ Cardinality(BuiltFor(k)) = 1
                  /\ \A x \in BuiltFor(k) : shutdownCalls[x] = 1

\* C13: the exporter and the provider of a key are built at most once while
\* the key has a cached provider: a setup whose getTracerProvider call finds
\* the provider cached has built no exporter, and that call builds no provider.
C13_ReuseBuildsNothing ==
    /\ [](\A p \in Instances :
            (hist.call[p].op = "get" /\ hist.call[p].reused) =>
                ~hist.call[p].exporter)
    /\ [][\A p \in Instances :
            (/\ pc[p] = "get_lookup"
             /\ pc'[p] = "get_return"
             /\ key[p] \in DOMAIN tracerProviders) =>
                numCreated' = numCreated]_vars

\* The errors a setup is known to fail with.
SetupErrors == {ErrResource, ErrUnspecifiedTracesProtocol, ErrNonSupportedTracesProtocol,
                ErrExporter, ErrUnspecifiedPropagators}

\* C14: a Provision that returns an error changes neither map of the registry,
\* builds no provider and is counted as no acquisition, and the instance holds
\* no provider afterwards; a Provision that has called getTracerProvider
\* returns nil.  The error is a resource error, an unspecified protocol, an
\* unsupported one, an exporter construction failure or unspecified
\* propagators.
C14_FailedSetupLeavesRegistry ==
    /\ [][(calls' # calls /\ pc' = pc) =>
            /\ \E p \in Instances :
                  /\ pc[p] = "idle"
                  /\ result'[p] # Nil
                  /\ \E e \in SetupErrors : ErrorsIs(result'[p], e)
                  /\ hist'.owes[p] = NoProvider
                  /\ otel'[p].tracer = NoProvider
            /\ tracerProviders' = tracerProviders
            /\ tracerProvidersCounter' = tracerProvidersCounter
            /\ mu' = mu
            /\ numCreated' = numCreated
            /\ hist'.acquires = hist.acquires]_vars
    /\ [][\A p \in Instances :
            (pc[p] \in {"idle", "get_return"} /\ pc'[p] \in {"get_lock", "idle"}
             /\ pc'[p] # pc[p]) => result'[p] = Nil]_vars

\* A setup with an unsupported protocol has failed while another instance's
\* provider is cached.
C14_Witness ==
    \E p \in Instances :
        /\ pc[p] = "idle"
        /\ ErrorsIs(result[p], ErrNonSupportedTracesProtocol)
        /\ Cardinality(DOMAIN tracerProviders) >= 1
        /\ \E k \in DOMAIN tracerProvidersCounter : tracerProvidersCounter[k] >= 1

\* Piece t is name n with white space around it.
Names(t, n) ==
    \E i \in 0..Len(t) :
        /\ i + Len(n) <= Len(t)
        /\ SubSeq(t, i + 1, i + Len(n)) = n
        /\ \A m \in 1..i : t[m] \in WhiteSpace
        /\ \A m \in (i + Len(n) + 1)..Len(t) : t[m] \in WhiteSpace

\* The first piece of tokens that names n, 0 if none does.
FirstNaming(tokens, n) ==
    IF \E i \in 1..Len(tokens) : Names(tokens[i], n)
    THEN CHOOSE i \in 1..Len(tokens) :
            /\ Names(tokens[i], n)
            /\ \A j \in 1..(i - 1) : ~Names(tokens[j], n)
    ELSE 0

\* C18: getPropagators returns the recognised codecs in the order of their
\* first occurrence among the comma-separated pieces, white space around a
\* piece ignored: a codec is in the result exactly when a piece names it, at
\* most once however often it is named, tracecontext before baggage exactly
\* when it is named first, and nothing else is in the result;
\* "tracecontext,tracecontext,baggage" gives what "tracecontext,baggage"
\* gives; and the names of the result give the same result again.
C18_OrderedDeduplicatedCodecs ==
    /\ getPropagators(JoinComma(<<Str_tracecontext, Str_tracecontext, Str_baggage>>))
           = getPropagators(JoinComma(<<Str_tracecontext, Str_baggage>>))
    /\ fn.pc \in {"called", "done"} =>
          LET t == FirstNaming(fn.tokens, Str_tracecontext)
              b == FirstNaming(fn.tokens, Str_baggage)
          IN  fn.out = (IF t = 0 /\ b = 0 THEN <<>>
                        ELSE IF b = 0 THEN <<"tracecontext">>
                        ELSE IF t = 0 THEN <<"baggage">>
                        ELSE IF t < b THEN <<"tracecontext", "baggage">>
                        ELSE <<"baggage", "tracecontext">>)
    /\ fn.pc = "done" => fn.again = fn.out

\* "baggage, tracecontext,baggage" style input: both codecs named, baggage
\* first and twice, one of the names with white space, and the result has
\* been fed back.
C18_Witness ==
    /\ fn.pc = "done"
    /\ fn.out = <<"baggage", "tracecontext">>
    /\ Len(fn.tokens) = 3
    /\ Names(fn.tokens[3], Str_baggage)
    /\ fn.tokens[2] = <<" ">> \o Str_tracecontext

\* The protocol the claim says a setup uses.
ResolvedProtocol ==
    IF fn.cfg.ExporterTracesProtocol # "" THEN fn.cfg.ExporterTracesProtocol
    ELSE IF fn.env.OTEL_EXPORTER_OTLP_TRACES_PROTOCOL # ""
    THEN fn.env.OTEL_EXPORTER_OTLP_TRACES_PROTOCOL
    ELSE fn.env.OTEL_EXPORTER_OTLP_PROTOCOL

\* What C15 says of a returned setup.
ProtocolDecidesError ==
    /\ ResolvedProtocol = "" => fn.r.err = ErrUnspecifiedTracesProtocol
    /\ ResolvedProtocol \notin {"", "grpc"} =>
          ErrorsIs(fn.r.err, ErrNonSupportedTracesProtocol)
    /\ ResolvedProtocol = "grpc" =>
          /\ ~ErrorsIs(fn.r.err, ErrUnspecifiedTracesProtocol)
          /\ ~ErrorsIs(fn.r.err, ErrNonSupportedTracesProtocol)

PropagatorsDecideError ==
    /\ (/\ ResolvedProtocol = "grpc"
        /\ fn.cfg.Propagators = EmptyString
        /\ fn.env.OTEL_PROPAGATORS = EmptyString) =>
            fn.r.err = ErrUnspecifiedPropagators
    /\ (fn.cfg.Propagators = EmptyString /\ fn.env.OTEL_PROPAGATORS # EmptyString) =>
          /\ ~ErrorsIs(fn.r.err, ErrUnspecifiedPropagators)
          /\ fn.r.err = Nil => fn.r.propagators = getPropagators(fn.env.OTEL_PROPAGATORS)

C17_NoCodecIsUnspecified ==
    (/\ fn.pc = "returned"
     /\ ~fn.resourceFails
     /\ ~fn.exporterFails
     /\ ResolvedProtocol = "grpc"
     /\ getPropagators(propagatorsOrEnv(fn.cfg.Propagators, fn.env)) = <<>>) =>
        fn.r.err = ErrUnspecifiedPropagators

\* C12: two setups whose six values (service name, tracer name, protocol,
\* insecure flag, certificate, endpoint) differ in at least one get
\* different keys.
C12_KeyInjective ==
    (fn.pc = "returned" /\ fn.first # fn.second) => fn.firstKey # fn.secondKey

\* The next handler has been called.
NextHandlerCalled == fn.pc \in {"end", "done"}

\* The request came with a valid traceparent.
IncomingValid == fn.incoming.traceparent.present /\ IsValid(fn.incoming.traceparent)

\* What C19 says the next handler sees.
SameTraceNewSpan ==
    /\ fn.seen.traceparent.present
    /\ fn.seen.traceparent.trace = fn.incoming.traceparent.trace
    /\ fn.seen.traceparent.span # fn.incoming.traceparent.span

\* C19 as claimed: for every middleware and every request with a valid
\* traceparent of trace ID T and span ID S, the next handler sees a
\* traceparent with trace ID T and a span ID other than S.
C19_TraceKeptForEveryMiddleware ==
    (NextHandlerCalled /\ IncomingValid) => SameTraceNewSpan

\* C19 amended: the same for the middlewares that have tracecontext among
\* their propagators.
C19_TraceKeptWithTraceContext ==
    (/\ NextHandlerCalled
     /\ IncomingValid
     /\ \E i \in 1..Len(fn.propagators) : fn.propagators[i] = "tracecontext") =>
        /\ SameTraceNewSpan
        /\ fn.seen.traceparent.span # ZeroID

\* A middleware with baggage and tracecontext has passed on a request that
\* came with a valid traceparent.
C19_Witness ==
    /\ fn.pc = "done"
    /\ fn.propagators = <<"baggage", "tracecontext">>
    /\ IncomingValid
    /\ fn.seen.traceparent.trace = fn.incoming.traceparent.trace
    /\ fn.seen.traceparent # fn.incoming.traceparent

\* The request came without a traceparent.
IncomingNone == ~fn.incoming.traceparent.present

\* What C20 says the next handler sees.
NewTraceparent ==
    /\ fn.seen.traceparent.present
    /\ fn.seen.traceparent.trace # ZeroID
    /\ fn.seen.traceparent.span # ZeroID

\* C20 as claimed: for every middleware and every request without trace
\* context, the next handler sees a traceparent with a new trace ID and span
\* ID, neither all zeros.
C20_NewTraceForEveryMiddleware ==
    (NextHandlerCalled /\ IncomingNone) => NewTraceparent

\* C20 amended: the same for the middlewares that have tracecontext among
\* their propagators.
C20_NewTraceWithTraceContext ==
    (/\ NextHandlerCalled
     /\ IncomingNone
     /\ \E i \in 1..Len(fn.propagators) : fn.propagators[i] = "tracecontext") =>
        /\ NewTraceparent
        /\ fn.seen.traceparent.sampled

\* A middleware with tracecontext has passed on a request that came without
\* a traceparent.
C20_Witness ==
    /\ fn.pc = "done"
    /\ fn.propagators = <<"tracecontext">>
    /\ IncomingNone
    /\ fn.seen.traceparent.present
    /\ fn.seen.traceparent.trace = MaxID

\* s is a prefix of t.
IsPrefix(s, t) == Len(s) <= Len(t) /\ s = SubSeq(t, 1, Len(s))

\* C21: the statements of a ServeHTTP call are executed in the order extract,
\* start, inject, next handler, end: the next handler is not called before
\* the injection, the span is not ended before the next handler is through,
\* and when the call is over the span has been ended exactly once, whether
\* the next handler returned nil, returned an error or panicked.
C21_StepsInOrder ==
    /\ IsPrefix(fn.steps, ServeSteps)
    /\ fn.nextCalls >= 1 => Len(fn.steps) >= 4
    /\ fn.ended <= 1
    /\ fn.ended = 1 => (fn.nextCalls = 1 /\ Len(fn.steps) = 5)
    /\ fn.pc = "done" => fn.ended = 1

\* A call whose next handler panicked is over.
C21_Witness ==
    /\ fn.pc = "done"
    /\ fn.panicked
    /\ fn.ended = 1
    /\ fn.steps = ServeSteps

\* C22: a ServeHTTP call that returns has called the next handler exactly
\* once and returns what that call returned: nil for nil, the same error,
\* not wrapped, for an error; and no call calls the next handler twice.
C22_NextOnceResultUnchanged ==
    /\ fn.nextCalls <= 1
    /\ fn.returned =>
          /\ fn.nextCalls = 1
          /\ fn.ret = fn.handlerRet
          /\ fn.ret \in HandlerErrors

\* A call has returned the error of the next handler.
C22_Witness ==
    /\ fn.returned
    /\ fn.handlerRet = <<"handler error">>
    /\ fn.ret = <<"handler error">>
    /\ fn.nextCalls = 1

\* The statements of the two cache functions between Lock and Unlock.
InRegistry(p) == pc[p] \notin {"idle", "get_lock", "cleanup_lock"}

\* C23: from the decrement that takes a key's counter to 0 until the release
\* returns, through flush, shutdown and delete, the releasing instance holds
\* the mutex and every other instance is outside getTracerProvider and
\* cleanupTracerProvider or waiting for the mutex, whatever its key; and at
\* any time at most the holder of the mutex is between Lock and Unlock.
C23_TeardownExclusive ==
    \A p \in Instances :
        /\ InRegistry(p) => mu = p
        /\ (hist.call[p].op = "cleanup" /\ hist.call[p].hitZero) =>
              /\ mu = p
              /\ pc[p] \in {"cleanup_check", "cleanup_flush", "cleanup_shutdown",
                            "cleanup_delete", "cleanup_return"}
              /\ \A q \in Instances \ {p} : ~InRegistry(q)

\* While one instance is shutting the provider of a key down, another one
\* is waiting in getTracerProvider for the same key.
C23_Witness ==
    \E p, q \in Instances :
        /\ p # q
        /\ pc[p] = "cleanup_shutdown"
        /\ hist.call[p].hitZero
        /\ pc[q] = "get_lock"
        /\ key[q] = key[p]

\* Key k has the same provider and the same counter, or neither, before and
\* after the step.
SameEntry(k) ==
    /\ (k \in DOMAIN tracerProviders) <=> (k \in DOMAIN tracerProviders')
    /\ (k \in DOMAIN tracerProvidersCounter) <=> (k \in DOMAIN tracerProvidersCounter')
    /\ k \in DOMAIN tracerProviders => tracerProviders'[k] = tracerProviders[k]
    /\ k \in DOMAIN tracerProvidersCounter =>
          tracerProvidersCounter'[k] = tracerProvidersCounter[k]

\* The step invokes ForceFlush or Shutdown on provider x.
TornDown(x) == flushCalls'[x] # flushCalls[x] \/ shutdownCalls'[x] # shutdownCalls[x]

\* C25: a step of getTracerProvider(k) or cleanupTracerProvider(k) leaves the
\* provider and the counter of every other key as they are and flushes or
\* shuts down no provider but the one cached for k, which only a release
\* does; a release that has left k's counter above 0 neither removes k's
\* provider nor flushes it nor shuts it down; and outside the two functions
\* no step touches the registry.
C25_OtherKeysUntouched ==
    [][/\ \A p \in Instances :
            (mu = p /\ InRegistry(p)) =>
               /\ \A k \in (DOMAIN tracerProviders \cup DOMAIN tracerProviders' \cup
                             DOMAIN tracerProvidersCounter \cup
                             DOMAIN tracerProvidersCounter') \ {key[p]} : SameEntry(k)
               /\ \A x \in Providers :
                     TornDown(x) =>
                        /\ hist.call[p].op = "cleanup"
                        /\ key[p] \in DOMAIN tracerProviders
                        /\ tracerProviders[key[p]] = x
               /\ (/\ hist.call[p].op = "cleanup"
                   /\ pc[p] \in {"cleanup_check", "cleanup_return"}
                   /\ CounterOf(key[p]) > 0) =>
                      /\ SameEntry(key[p])
                      /\ \A x \in Providers : ~TornDown(x)
       /\ (\A p \in Instances : ~InRegistry(p)) =>
               /\ tracerProviders' = tracerProviders
               /\ tracerProvidersCounter' = tracerProvidersCounter
               /\ \A x \in Providers : ~TornDown(x)]_vars

\* A release has torn down and deleted the entry of its key while another
\* key has its provider cached and held.
C25_Witness ==
    \E p \in Instances :
        /\ Finished(p, "cleanup")
        /\ Has(hist.call[p].events, "delete")
        /\ Has(hist.call[p].events, "shutdown_ok")
        /\ \E k \in DOMAIN tracerProviders :
              /\ k # key[p]
              /\ CounterOf(k) >= 1
              /\ shutdownCalls[tracerProviders[k]] = 0

\* C26: the provider getTracerProvider returns is one on which Shutdown has
\* never been invoked, whatever acquires and releases came before, releases
\* whose Shutdown failed included.
C26_AcquiredProviderNotShutDown ==
    \A p \in Instances :
        Finished(p, "get") => shutdownCalls[tp[p]] = 0

\* C27: when no instance is inside getTracerProvider or
\* cleanupTracerProvider, the two maps have the same keys and no counter is
\* negative.
C27_MapsHaveSameKeys ==
    (\A p \in Instances : ~InRegistry(p)) =>
        /\ DOMAIN tracerProviders = DOMAIN tracerProvidersCounter
        /\ \A k \in DOMAIN tracerProvidersCounter : tracerProvidersCounter[k] >= 0

\* One key has been removed from both maps by its last release and another
\* key is in both.
C27_Witness ==
    /\ \A p \in Instances : ~InRegistry(p)
    /\ Cardinality(DOMAIN tracerProvidersCounter) = 1
    /\ \E k \in DOMAIN hist.releases :
          /\ k \notin DOMAIN tracerProviders
          /\ k \notin DOMAIN tracerProvidersCounter

\* The last thing instance p did was a setup that failed.
SetupFailed(p) ==
    pc[p] = "idle" /\ \E e \in SetupErrors : ErrorsIs(result[p], e)

\* C28: an instance whose setup failed, like one that was never set up, has
\* the empty tracerProviderKey and no tracer; the empty key is the key of no
\* successful setup and is in neither map; and a Cleanup of such an instance,
\* that is cleanupTracerProvider(""), changes neither map, invokes neither
\* ForceFlush nor Shutdown, and returns nil.
C28_CleanupWithoutSetupIsNoop ==
    /\ [](\A p \in Instances :
            /\ SetupFailed(p) => otel[p] = EmptyWrapper
            /\ otel[p].tracer # NoProvider => otel[p].tracerProviderKey # ""
            /\ otel[p].tracer = NoProvider => otel[p].tracerProviderKey = ""
            /\ hist.call[p].op = "get" => key[p] # "")
    /\ []("" \notin DOMAIN tracerProviders \cup DOMAIN tracerProvidersCounter)
    /\ [][\A p \in Instances :
            (hist.call[p].op = "cleanup" /\ key[p] = "" /\ pc'[p] # pc[p]) =>
                /\ tracerProviders' = tracerProviders
                /\ tracerProvidersCounter' = tracerProvidersCounter
                /\ flushCalls' = flushCalls
                /\ shutdownCalls' = shutdownCalls
                /\ numCreated' = numCreated
                /\ pc'[p] = "idle" => result'[p] = Nil]_vars

\* An instance whose setup failed is through its Cleanup while another
\* instance holds a provider.
C28_Witness ==
    \E p \in Instances :
        /\ Finished(p, "cleanup")
        /\ key[p] = ""
        /\ err[p] = Nil
        /\ \E k \in DOMAIN tracerProvidersCounter : tracerProvidersCounter[k] >= 1

\* C29: whatever Cleanup calls are made, second Cleanups of one instance
\* included, a release invokes Shutdown only on a provider that no instance
\* has acquired without having called Cleanup since.
C29_SecondCleanupHarmless ==
    \A p \in Instances :
        (/\ hist.call[p].op = "cleanup"
         /\ \/ Has(hist.call[p].events, "shutdown_ok")
            \/ Has(hist.call[p].events, "shutdown_error")) =>
            hist.held[tp[p]] = 0

\* C24: with a fair scheduler and ForceFlush and Shutdown returning, every
\* getTracerProvider and cleanupTracerProvider call returns (each instance is
\* outside the two functions again and again), also one waiting
\* for the mutex behind a release of another key; and the mutex is held only
\* by an instance between Lock and Unlock, so it is free once the call has
\* returned, after a failed Shutdown as well.
C24_EveryCallReturns ==
    /\ \A p \in Instances : []<>(pc[p] = "idle")
    /\ [](\A p \in Instances : mu = p => InRegistry(p))
    /\ []((\A p \in Instances : ~InRegistry(p)) => mu = NoInstance)

\* A release has returned the error of a failed Shutdown, and an acquire of
\* another key that waited behind it has the mutex.
C24_Witness ==
    \E p, q \in Instances :
        /\ pc[p] = "idle"
        /\ ErrorsIs(result[p], ErrShutdown)
        /\ pc[q] = "get_return"
        /\ mu = q
        /\ key[q] # otel[p].tracerProviderKey

====
